---- MODULE Spec2Model ----
(***************************************************************************)
(* TensorManager of flutter_onnxruntime (linux and windows variants): the  *)
(* handle registry of native tensors, its mutex, the handle generator and  *)
(* the type-conversion entry points, as a state machine whose steps are    *)
(* the lock acquisitions and the map accesses of each method.              *)
(*                                                                         *)
(* Element values are integers throughout: a float32 element is written   *)
(* in halves (5 stands for 2.5), a bool element is the byte 0 or 1, a      *)
(* string element is the number of the string.                             *)
(***************************************************************************)
EXTENDS Integers, Sequences, FiniteSets, TLC

\* ---------------------------------------------------------------- bounds
\* Number of handles the generator may issue before no new operation that
\* needs one is started.
MaxId == 3
\* Number of heap buffers that may be allocated.
MaxAlloc == 3
\* Number of calls made in a run with overlapping calls, and in a run
\* without.
MaxCalls == 3
MaxSeqCalls == 4

Threads == {1, 2}
Free == 0
Platforms == {"linux", "windows"}

NumericTypes == {"float32", "int32", "int64", "uint8", "bool"}
RegistryTypes == NumericTypes \cup {"string"}
HandleIds == 1 .. MaxId

\* ------------------------------------------------------- partial maps
\* std::map<std::string, V>: a function whose DOMAIN is the key set.
EmptyMap == [k \in {} |-> 0]
Has(m, k) == k \in DOMAIN m
\* A store that writes the value under every key.
PutAll(m, k, v) == [x \in (DOMAIN m) \cup {k} |-> v]
Put(m, k, v) == [x \in (DOMAIN m) \cup {k} |-> IF x = k THEN v ELSE m[x]]
\* An erase that removes nothing.
EraseNothing(m, k) == m
Erase(m, k) == [x \in (DOMAIN m) \ {k} |-> m[x]]

\* The same two updates, for the bookkeeping maps origin and created.
Record(m, k, v) == [x \in (DOMAIN m) \cup {k} |-> IF x = k THEN v ELSE m[x]]
Forget(m, k) == [x \in (DOMAIN m) \ {k} |-> m[x]]

\* ------------------------------------------------------------- shapes
RECURSIVE ElemCount(_)
\* TensorTypeAndShapeInfo::GetElementCount: the product of the dimensions,
\* 1 for the empty shape.
ElemCount(shape) ==
  IF shape = <<>> THEN 1 ELSE Head(shape) * ElemCount(Tail(shape))

\* The whole buffer, whatever the count.
Whole(s, n) == s
Prefix(s, n) == [i \in 1 .. n |-> s[i]]

\* The inputs a caller hands to create*Tensor: element type, flat data and
\* shape.  The data of the last two do not match their shape (one element
\* too many, one too few).
CreateInputs ==
  { [type |-> "float32", data |-> <<5, -5>>, shape |-> <<2>>],
    [type |-> "bool",    data |-> <<1, 0>>,  shape |-> <<2>>],
    [type |-> "string",  data |-> <<3>>,     shape |-> <<1>>],
    [type |-> "int32",   data |-> <<1, 2>>,  shape |-> <<1>>],
    [type |-> "uint8",   data |-> <<4>>,     shape |-> <<2>>] }

\* ------------------------------------------------------ native tensors
\* An Ort::Value.  kind "tensor": a tensor whose elements are at heap
\* address ptr (a view over a caller-supplied buffer) or, with ptr = 0, in
\* storage of its own (string tensors, engine outputs); kind "null": the
\* empty std::unique_ptr that std::map::operator[] inserts.
NullTensor ==
  [kind |-> "null", etype |-> "", shape |-> <<>>, ptr |-> 0, own |-> <<>>]
ViewTensor(etype, shape, ptr) ==
  [kind |-> "tensor", etype |-> etype, shape |-> shape, ptr |-> ptr,
   own |-> <<>>]
OwnTensor(etype, shape, data) ==
  [kind |-> "tensor", etype |-> etype, shape |-> shape, ptr |-> 0,
   own |-> data]

\* A subscript that resets the entry it finds.
SubscriptReset(m, k) == Put(m, k, NullTensor)
\* std::map::operator[] on tensors_: the entry under k, value-initialised
\* (a null unique_ptr) when there was none.
Subscript(m, k) == IF Has(m, k) THEN m ELSE Put(m, k, NullTensor)

\* What a method hands back to its caller.
NoRet ==
  [kind |-> "none", h |-> 0, b |-> FALSE, type |-> "", shape |-> <<>>,
   data |-> <<>>, err |-> ""]
\* A failure reported for a call that has stored its record.
RetFailure(h) == [NoRet EXCEPT !.kind = "throw", !.err = "Ort::Exception"]
RetHandle(h) == [NoRet EXCEPT !.kind = "handle", !.h = h]
RetBool(b) == [NoRet EXCEPT !.kind = "bool", !.b = b]
RetNull == [NoRet EXCEPT !.kind = "null"]
RetData(shape, type, data) ==
  [NoRet EXCEPT !.kind = "data", !.shape = shape, !.type = type,
                !.data = data]
RetType(type) == [NoRet EXCEPT !.kind = "type", !.type = type]
RetShape(shape) == [NoRet EXCEPT !.kind = "shape", !.shape = shape]
\* A lookup that hands back an empty value where it should throw.
RetEmptyType(err) == [NoRet EXCEPT !.kind = "type"]
RetThrow(err) == [NoRet EXCEPT !.kind = "throw", !.err = err]

\* A thread that is in no method.
IdleThread ==
  [pc |-> "idle", op |-> "", id |-> 0, target |-> "", type |-> "",
   data |-> <<>>, shape |-> <<>>, rd |-> 0, new_id |-> 0,
   tmp |-> NullTensor, valid |-> TRUE, ret |-> NoRet]

VARIABLES
  platform,              \* which variant of tensor_manager.cc is built
  mutex_,                \* the thread that holds mutex_, or Free
  next_tensor_id_,       \* the state of the handle generator
  tensors_,              \* handle -> native tensor
  tensor_types_,         \* handle -> element type tag
  tensor_shapes_,        \* handle -> shape
  tensor_data_buffers_,  \* handle -> heap address of the owned buffer
  heap,                  \* the buffers allocated so far, by address
  th,                    \* per thread: the method it is in and its locals
  crashed,               \* the process died (null or wild dereference)
  live,                  \* handles under which a tensor was inserted and
                         \* for which no release has returned true since
  origin,                \* handle -> the call that put its tensor there
  created,               \* handle -> the arguments of the create*Tensor call
                         \* that made it, until a release finds it
  left                   \* calls that may still be started

vars ==
  <<platform, mutex_, next_tensor_id_, tensors_, tensor_types_,
    tensor_shapes_, tensor_data_buffers_, heap, th, crashed, live, origin,
    created, left>>

registry ==
  <<tensors_, tensor_types_, tensor_shapes_, tensor_data_buffers_>>

\* What origin records: the method, the handle it read from (0 if none)
\* and the type, shape and elements of the tensor it stored.
Origin(by, from, type, shape, data) ==
  [by |-> by, from |-> from, type |-> type, shape |-> shape, data |-> data]

InitCalls(n) ==
  /\ platform \in Platforms
  /\ mutex_ = Free
  /\ next_tensor_id_ = 1
  /\ tensors_ = EmptyMap
  /\ tensor_types_ = EmptyMap
  /\ tensor_shapes_ = EmptyMap
  /\ tensor_data_buffers_ = EmptyMap
  /\ heap = <<>>
  /\ th = [t \in Threads |-> IdleThread]
  /\ crashed = FALSE
  /\ live = {}
  /\ origin = EmptyMap
  /\ created = EmptyMap
  /\ left = n

Init == InitCalls(MaxCalls)

\* ------------------------------------------------------------ helpers
SetTh(t, r) == th' = [th EXCEPT ![t] = r]

\* A thread leaves its method with result r (its arguments stay readable).
Return(t, r) ==
  SetTh(t, [IdleThread EXCEPT !.op = th[t].op, !.id = th[t].id,
                              !.target = th[t].target, !.ret = r])

\* The process dies: no thread takes another step.
Crash(t) ==
  /\ crashed' = TRUE
  /\ SetTh(t, [th[t] EXCEPT !.pc = "crashed"])

\* Methods that will call generateTensorId and have not done so yet.
NeedsId(u) ==
  th[u].pc \in {"create_gen", "cv_clone_lock", "cv_clone", "cv_gen",
                "cv_lock", "cv_dispatch", "cvx_gen"}
\* The model starts a method that needs a handle only while the generator
\* and the heap stay within MaxId and MaxAlloc.
Room ==
  LET pending == Cardinality({u \in Threads : NeedsId(u)})
  IN  /\ next_tensor_id_ + pending <= MaxId
      /\ Len(heap) + pending < MaxAlloc

\* A lock that never waits.
CanLockAlways(t) == TRUE
\* A guard that leaves its thread holding the mutex.
StillLocked(t) == t
\* ~lock_guard at the end of the scope, by return or by throw: the mutex
\* is free again.
Unlocked(t) == Free
\* std::lock_guard<std::mutex> lock(mutex_): the constructor returns once
\* no other thread holds the mutex.
CanLock(t) == mutex_ = Free

\* The handle made from generator state g: "tensor_<g>" on linux; on
\* windows sixteen hex digits drawn from the static mt19937, which differ
\* from one generator state to the next (a draw that repeats an earlier one
\* is not modelled).
TensorIdOf(g) == IF platform = "linux" THEN g ELSE MaxId + 1 - g

\* A tensor over the caller's vector, which is gone when the call returns.
AllocView(hp, data) == Append(hp, [live |-> FALSE, data |-> data])
\* new T[n] / std::vector<uint8_t> buffer(n * sizeof(T)): a fresh buffer
\* holding data.
Alloc(hp, data) == Append(hp, [live |-> TRUE, data |-> data])
\* delete / ~vector: the buffer at address a is gone.
FreeCell(hp, a) == [hp EXCEPT ![a].live = FALSE]

\* Every element kept as one byte.
ElemAsByte(type, v) == v % 256
\* One element as the C++ element type holds it.
Elem(type, v) ==
  CASE type = "bool"  -> IF v = 0 THEN 0 ELSE 1
    [] type = "uint8" -> v % 256
    [] OTHER          -> v
ElemsOf(type, data) == [i \in 1 .. Len(data) |-> Elem(type, data[i])]

\* Ort::Value::CreateTensor<T>(memory_info_, p_data, p_data_element_count,
\* shape, shape_len) accepts the buffer when no dimension is negative and
\* the shape needs no more elements than the buffer holds; it throws
\* Ort::Exception otherwise.
OrtCreateOk(count, shape) ==
  /\ \A i \in 1 .. Len(shape) : shape[i] >= 0
  /\ ElemCount(shape) <= count
\* FillStringTensor accepts exactly as many strings as the tensor has
\* elements.
OrtFillOk(count, shape) ==
  /\ \A i \in 1 .. Len(shape) : shape[i] >= 0
  /\ ElemCount(shape) = count

\* The counter left where it was.
PostIncrementStuck(v) == v
\* next_tensor_id_++ : the value stored back after v was read.
PostIncrement(v) == v + 1

\* A buffer entry for every created tensor.
KeepsBufferAlways(type) == TRUE
\* windows: the five numeric create*Tensor move their vector into
\* tensor_data_buffers_[tensor_id]; createStringTensor has none to keep.
KeepsBuffer(type) == type # "string"

\* ------------------------------------------------- generateTensorId
\* next_tensor_id_++ is a read followed by a write; the read.
generateTensorId_read(t) ==
  /\ ~crashed
  /\ UNCHANGED <<left, origin, created>>
  /\ th[t].pc \in {"create_gen", "cv_gen", "cvx_gen"}
  /\ SetTh(t, [th[t] EXCEPT
       !.rd = next_tensor_id_,
       !.pc = CASE th[t].pc = "create_gen" -> "create_ins"
                [] th[t].pc = "cv_gen"     -> "cv_ins"
                [] OTHER                   -> "cvx_ins"])
  /\ UNCHANGED <<platform, mutex_, next_tensor_id_, registry, heap, crashed,
                 live>>

\* ------------------------------------------------------ create*Tensor
createTensor_lock(t) ==
  /\ ~crashed
  /\ left > 0
  /\ left' = left - 1
  /\ UNCHANGED <<origin, created>>
  /\ th[t].pc = "idle"
  /\ Room
  /\ CanLock(t)
  /\ \E inp \in CreateInputs :
       SetTh(t, [IdleThread EXCEPT !.pc = "create_gen", !.op = "create",
                                   !.type = inp.type, !.data = inp.data,
                                   !.shape = inp.shape])
  /\ mutex_' = t
  /\ UNCHANGED <<platform, next_tensor_id_, registry, heap, crashed, live>>

\* The write half of generateTensorId, the copy of the data, the native
\* tensor, the three (windows: four) map insertions and the return.
createTensor_body(t) ==
  LET me == th[t]
      id == TensorIdOf(me.rd)
      addr == Len(heap) + 1
      isStr == me.type = "string"
      ok == IF isStr THEN OrtFillOk(Len(me.data), me.shape)
                     ELSE OrtCreateOk(Len(me.data), me.shape)
      hp1 == IF isStr THEN heap ELSE Alloc(heap, ElemsOf(me.type, me.data))
      \* windows: the buffer assigned into an entry that exists already
      \* replaces, and frees, the buffer held there
      hp2 == IF platform = "windows" /\ ~isStr /\ ok
                /\ Has(tensor_data_buffers_, id)
             THEN FreeCell(hp1, tensor_data_buffers_[id]) ELSE hp1
      \* windows: the local vector goes when CreateTensor throws
      hp3 == IF platform = "windows" /\ ~isStr /\ ~ok
             THEN FreeCell(hp1, addr) ELSE hp2
  IN
  /\ ~crashed
  /\ UNCHANGED left
  /\ me.pc = "create_ins"
  /\ next_tensor_id_' = PostIncrement(me.rd)
  /\ heap' = hp3
  /\ mutex_' = Free
  /\ IF ok
     THEN /\ tensors_' = Put(tensors_, id,
                IF isStr THEN OwnTensor("string", me.shape, me.data)
                         ELSE ViewTensor(me.type, me.shape, addr))
          /\ tensor_data_buffers_' =
               IF platform = "windows" /\ KeepsBuffer(me.type)
               THEN Put(tensor_data_buffers_, id, addr)
               ELSE tensor_data_buffers_
          /\ tensor_types_' = Put(tensor_types_, id, me.type)
          /\ tensor_shapes_' = Put(tensor_shapes_, id, me.shape)
          /\ live' = live \cup {id}
          /\ origin' = Record(origin, id,
                Origin("create", 0, me.type, me.shape, me.data))
          /\ created' = Record(created, id,
                [type |-> me.type, data |-> me.data, shape |-> me.shape])
          /\ Return(t, RetHandle(id))
     ELSE /\ UNCHANGED <<registry, live, origin, created>>
          /\ Return(t, RetThrow("Ort::Exception"))
  /\ UNCHANGED <<platform, crashed>>

\* ------------------------------------------------------ getTensorData
\* What the elements of a native tensor read as when taken for elements of
\* `type`: its own elements when the tensor holds that type in a live
\* buffer, anything otherwise (a freed buffer, or bytes of another type).
TensorElems(tensor) ==
  IF tensor.ptr = 0 THEN tensor.own ELSE heap[tensor.ptr].data
SoundRead(tensor, type) ==
  /\ tensor.kind = "tensor"
  /\ tensor.etype = type
  /\ tensor.ptr # 0 => heap[tensor.ptr].live
  /\ ElemCount(tensor.shape) <= Len(TensorElems(tensor))
\* The tensor's elements are in a buffer that has been freed: reading them
\* may also fault.
WildRead(tensor) == tensor.ptr # 0 /\ ~heap[tensor.ptr].live
GarbageElems(n) == [1 .. n -> {0, 77}]
\* A read that copies nothing out of the buffer.
ReadZeros(tensor, type) == {[i \in 1 .. ElemCount(tensor.shape) |-> 0]}
\* A read that takes whatever the memory holds.
ReadAnything(tensor, type) == GarbageElems(ElemCount(tensor.shape))
ReadElems(tensor, type) ==
  IF SoundRead(tensor, type)
  THEN {ElemsOf(type, Prefix(TensorElems(tensor), ElemCount(tensor.shape)))}
  ELSE GarbageElems(ElemCount(tensor.shape))

getTensorData_lock(t) ==
  /\ ~crashed
  /\ left > 0
  /\ left' = left - 1
  /\ UNCHANGED <<origin, created>>
  /\ th[t].pc = "idle"
  /\ CanLock(t)
  /\ \E id \in HandleIds :
       SetTh(t, [IdleThread EXCEPT !.pc = "gtd_body",
                                   !.op = "getTensorData", !.id = id])
  /\ mutex_' = t
  /\ UNCHANGED <<platform, next_tensor_id_, registry, heap, crashed, live>>

\* A tag without branch answered like a handle without record.
UnsupportedTensorTypeAsAbsent(type) == RetNull
\* The final else of the chain over tensor_type: throw
\* std::runtime_error("Unsupported tensor type: " + tensor_type).
UnsupportedTensorType(type) == RetThrow("Unsupported tensor type")

getTensorData_body(t) ==
  LET id == th[t].id IN
  /\ ~crashed
  /\ UNCHANGED <<left, origin, created>>
  /\ th[t].pc = "gtd_body"
  /\ UNCHANGED <<platform, next_tensor_id_, registry, heap, live>>
  /\ IF ~(Has(tensors_, id) /\ Has(tensor_types_, id)
          /\ Has(tensor_shapes_, id))
     THEN /\ Return(t, RetNull)
          /\ mutex_' = Free
          /\ UNCHANGED crashed
     ELSE
       LET type == tensor_types_[id]
           shape == tensor_shapes_[id]
           tensor == tensors_[id]
       IN
       CASE tensor.kind = "null" ->
              \* tensor->GetTensorTypeAndShapeInfo() through a null pointer
              Crash(t) /\ UNCHANGED mutex_
         [] tensor.kind = "nontensor" ->
              /\ Return(t, RetThrow("Ort::Exception"))
              /\ mutex_' = Free
              /\ UNCHANGED crashed
         [] tensor.kind = "tensor" /\ type \in NumericTypes
            /\ tensor.etype = "string" ->
              \* GetTensorMutableData refuses a string tensor
              /\ Return(t, RetThrow("Ort::Exception"))
              /\ mutex_' = Free
              /\ UNCHANGED crashed
         [] tensor.kind = "tensor" /\ type \in NumericTypes
            /\ tensor.etype # "string" ->
              \/ /\ \E d \in ReadElems(tensor, type) :
                       Return(t, RetData(shape, type, d))
                 /\ mutex_' = Free
                 /\ UNCHANGED crashed
              \/ /\ WildRead(tensor)
                 /\ Crash(t)
                 /\ UNCHANGED mutex_
         [] tensor.kind = "tensor" /\ type = "string" ->
              /\ IF tensor.etype = "string"
                 THEN Return(t, RetData(shape, type,
                        Prefix(tensor.own, ElemCount(tensor.shape))))
                 ELSE Return(t, RetThrow("Ort::Exception"))
              /\ mutex_' = Free
              /\ UNCHANGED crashed
         [] OTHER ->
              /\ Return(t, UnsupportedTensorType(type))
              /\ mutex_' = Free
              /\ UNCHANGED crashed

\* ------------------------------------------------------ releaseTensor
releaseTensor_lock(t) ==
  /\ ~crashed
  /\ left > 0
  /\ left' = left - 1
  /\ UNCHANGED <<origin, created>>
  /\ th[t].pc = "idle"
  /\ CanLock(t)
  /\ \E id \in HandleIds :
       SetTh(t, [IdleThread EXCEPT !.pc = "rel_find",
                                   !.op = "releaseTensor", !.id = id])
  /\ mutex_' = t
  /\ UNCHANGED <<platform, next_tensor_id_, registry, heap, crashed, live>>

\* The lookups, the early return and tensors_.erase(tensor_it).  Iterators
\* and references that other threads hold into the erased nodes dangle
\* from here on.  tmp remembers the native tensor that was destroyed.
releaseTensor_find(t) ==
  LET id == th[t].id IN
  /\ ~crashed
  /\ UNCHANGED left
  /\ th[t].pc = "rel_find"
  /\ IF ~Has(tensors_, id)
     THEN /\ Return(t, RetBool(FALSE))
          /\ mutex_' = Free
          /\ UNCHANGED <<registry, live, origin, created>>
     ELSE /\ tensors_' = Erase(tensors_, id)
          /\ origin' = Forget(origin, id)
          /\ created' = Forget(created, id)
          /\ th' = [u \in Threads |->
               IF u = t THEN [th[t] EXCEPT !.pc = "rel_erase",
                                           !.tmp = tensors_[id]]
               ELSE IF th[u].op = "convertTensor" /\ th[u].id = id
                       /\ th[u].pc # "idle"
                    THEN [th[u] EXCEPT !.valid = FALSE]
                    ELSE th[u]]
          /\ UNCHANGED <<mutex_, tensor_types_, tensor_shapes_,
                         tensor_data_buffers_, live>>
  /\ UNCHANGED <<platform, next_tensor_id_, heap, crashed>>

\* The erasures of the type, the shape and (windows) the buffer, and the
\* return.
releaseTensor_erase(t) ==
  LET id == th[t].id IN
  /\ ~crashed
  /\ UNCHANGED <<left, origin, created>>
  /\ th[t].pc = "rel_erase"
  /\ tensor_types_' = Erase(tensor_types_, id)
  /\ tensor_shapes_' = Erase(tensor_shapes_, id)
  /\ tensor_data_buffers_' = Erase(tensor_data_buffers_, id)
  /\ heap' = IF Has(tensor_data_buffers_, id)
             THEN FreeCell(heap, tensor_data_buffers_[id]) ELSE heap
  /\ live' = live \ {id}
  /\ mutex_' = Free
  /\ Return(t, RetBool(TRUE))
  /\ UNCHANGED <<platform, next_tensor_id_, tensors_, crashed>>

\* ----------------------------------------------------------- getTensor
getTensor_lock(t) ==
  /\ ~crashed
  /\ left > 0
  /\ left' = left - 1
  /\ UNCHANGED <<origin, created>>
  /\ th[t].pc = "idle"
  /\ CanLock(t)
  /\ \E id \in HandleIds :
       SetTh(t, [IdleThread EXCEPT !.pc = "gt_body", !.op = "getTensor",
                                   !.id = id])
  /\ mutex_' = t
  /\ UNCHANGED <<platform, next_tensor_id_, registry, heap, crashed, live>>

\* Returns it->second.get(), the address of the stored Ort::Value, or
\* nullptr.
getTensor_body(t) ==
  /\ ~crashed
  /\ UNCHANGED <<left, origin, created>>
  /\ th[t].pc = "gt_body"
  /\ Return(t, IF Has(tensors_, th[t].id)
               THEN [NoRet EXCEPT !.kind = "ptr", !.h = th[t].id]
               ELSE [NoRet EXCEPT !.kind = "nullptr"])
  /\ mutex_' = Free
  /\ UNCHANGED <<platform, next_tensor_id_, registry, heap, crashed, live>>

\* ------------------------------------- getTensorType / getTensorShape
\* A lookup that creates the entry it does not find.
AtInserting(m, k) == IF Has(m, k) THEN m ELSE Put(m, k, "")
\* What std::map::at (linux) and find (windows) leave of the map: all of it.
At(m, k) == m

getTensorType_lock(t) ==
  /\ ~crashed
  /\ left > 0
  /\ left' = left - 1
  /\ UNCHANGED <<origin, created>>
  /\ th[t].pc = "idle"
  /\ CanLock(t)
  /\ \E id \in HandleIds :
       SetTh(t, [IdleThread EXCEPT !.pc = "gty_body",
                                   !.op = "getTensorType", !.id = id])
  /\ mutex_' = t
  /\ UNCHANGED <<platform, next_tensor_id_, registry, heap, crashed, live>>

\* linux: tensor_types_.at(id) throws std::out_of_range for a missing key;
\* windows: find, and std::runtime_error("Tensor not found").
getTensorType_body(t) ==
  /\ ~crashed
  /\ UNCHANGED <<left, origin, created>>
  /\ th[t].pc = "gty_body"
  /\ Return(t, IF Has(tensor_types_, th[t].id)
               THEN RetType(tensor_types_[th[t].id])
               ELSE RetThrow(IF platform = "linux" THEN "std::out_of_range"
                                                   ELSE "Tensor not found"))
  /\ mutex_' = Free
  /\ tensor_types_' = At(tensor_types_, th[t].id)
  /\ UNCHANGED <<platform, next_tensor_id_, tensors_, tensor_shapes_,
                 tensor_data_buffers_, heap, crashed, live>>

getTensorShape_lock(t) ==
  /\ ~crashed
  /\ left > 0
  /\ left' = left - 1
  /\ UNCHANGED <<origin, created>>
  /\ th[t].pc = "idle"
  /\ CanLock(t)
  /\ \E id \in HandleIds :
       SetTh(t, [IdleThread EXCEPT !.pc = "gsh_body",
                                   !.op = "getTensorShape", !.id = id])
  /\ mutex_' = t
  /\ UNCHANGED <<platform, next_tensor_id_, registry, heap, crashed, live>>

getTensorShape_body(t) ==
  /\ ~crashed
  /\ UNCHANGED <<left, origin, created>>
  /\ th[t].pc = "gsh_body"
  /\ Return(t, IF Has(tensor_shapes_, th[t].id)
               THEN RetShape(tensor_shapes_[th[t].id])
               ELSE RetThrow(IF platform = "linux" THEN "std::out_of_range"
                                                   ELSE "Tensor not found"))
  /\ mutex_' = Free
  /\ UNCHANGED <<platform, next_tensor_id_, registry, heap, crashed, live>>

\* --------------------------------------------------------- storeTensor
\* The Ort::Values the inference layer hands in: tensors in storage of
\* their own, of a registry type or of another one, and a value that is no
\* tensor (GetTensorTypeAndShapeInfo throws on it).
StoreInputs ==
  { OwnTensor("float32", <<2>>, <<3, 4>>),
    OwnTensor("float16", <<1>>, <<6>>),
    OwnTensor("double", <<1>>, <<2>>),
    [kind |-> "nontensor", etype |-> "", shape |-> <<>>, ptr |-> 0,
     own |-> <<>>] }

\* The handles a caller can hold: those the generator has issued.
Issued == {TensorIdOf(g) : g \in 1 .. (next_tensor_id_ - 1)}

\* SessionManager::getElementTypeString: the tag of a native element type;
\* no tag for a type outside the registry's set.
ElementTypeTags == RegistryTypes \cup {"float16"}
\* A tag that does not depend on the native element type.
getElementTypeStringFixed(etype) == "float32"
getElementTypeString(etype) ==
  IF etype \in ElementTypeTags THEN etype ELSE "throw"

storeTensor_lock(t) ==
  /\ ~crashed
  /\ left > 0
  /\ left' = left - 1
  /\ UNCHANGED <<origin, created>>
  /\ th[t].pc = "idle"
  /\ CanLock(t)
  /\ \E id \in Issued, v \in StoreInputs :
       SetTh(t, [IdleThread EXCEPT !.pc = "store_body",
                                   !.op = "storeTensor", !.id = id,
                                   !.tmp = v])
  /\ mutex_' = t
  /\ UNCHANGED <<platform, next_tensor_id_, registry, heap, crashed, live>>

\* tensors_[id] is assigned first; the shape and the type follow unless
\* the introspection or the tag throws, which linux swallows and windows
\* rethrows.  An entry of tensor_data_buffers_ under id is left alone.
storeTensor_body(t) ==
  LET id == th[t].id
      v == th[t].tmp
      isTensor == v.kind = "tensor"
      tag == getElementTypeString(v.etype)
      failed == ~isTensor \/ tag = "throw"
  IN
  /\ ~crashed
  /\ UNCHANGED <<left, created>>
  /\ th[t].pc = "store_body"
  /\ tensors_' = Put(tensors_, id, v)
  /\ live' = live \cup {id}
  /\ origin' = Record(origin, id, Origin("store", 0, v.etype, v.shape, v.own))
  /\ tensor_shapes_' = IF isTensor THEN Put(tensor_shapes_, id, v.shape)
                                   ELSE tensor_shapes_
  /\ tensor_types_' = IF failed THEN tensor_types_
                                ELSE Put(tensor_types_, id, tag)
  /\ Return(t, IF failed /\ platform = "windows"
               THEN RetThrow("std::exception")
               ELSE [NoRet EXCEPT !.kind = "void"])
  /\ mutex_' = Free
  /\ UNCHANGED <<platform, next_tensor_id_, tensor_data_buffers_, heap,
                 crashed>>

\* ------------------------------------------------ conversion of elements
INT32_MAX == 2147483647
INT32_MIN == (-2147483647) - 1

\* ---- element values
\* An element is held as <<k, hi, lo>>.  k = 0: the number
\* hi * LimbBase + lo with 0 <= lo < LimbBase, wide enough for int64_t
\* values outside the int32_t range; for a float32 the number counts
\* halves (5 is 2.5f).  The other k are float32 values that are no count
\* of halves: k = 1 NaN; k = 2 infinity, of sign hi; k = 3 the float32
\* next to 0.5f toward zero, 0.49999997f, of sign hi.  k = 4 is the
\* extreme int64_t of sign hi: INT64_MAX or INT64_MIN.
LimbBase == 1073741824
Norm(hi, lo) == <<0, hi + (lo \div LimbBase), lo % LimbBase>>
Wide(v) == Norm(0, v)
Plain(x) == x[2] * LimbBase + x[3]
NaN == <<1, 0, 0>>
Infinity(sign) == <<2, sign, 0>>
BelowHalf(sign) == <<3, sign, 0>>
Int64Extreme(sign) == <<4, sign, 0>>
IsNumber(x) == x[1] = 0

\* x < y, -x, x + d for a small d, x / 2 toward zero, 2 * x, on numbers.
Less(x, y) == x[2] < y[2] \/ (x[2] = y[2] /\ x[3] < y[3])
Neg(x) == Norm(-x[2], -x[3])
Plus(x, d) == Norm(x[2], x[3] + d)
HalfOfNonNeg(x) ==
  <<0, x[2] \div 2, ((x[2] % 2) * LimbBase + x[3]) \div 2>>
HalfTowardZero(x) ==
  IF x[2] >= 0 THEN HalfOfNonNeg(x) ELSE Neg(HalfOfNonNeg(Neg(x)))
Twice(x) == Norm(2 * x[2], 2 * x[3])

\* ---- float32 arithmetic (IEEE 754 binary32, round to nearest even)
\* A float32 has a 24 bit significand: a count of halves below 2^24 is
\* exact, a larger one is a multiple of Ulp.
RECURSIVE Ulp(_)
Ulp(a) == IF Less(a, Wide(16777216)) THEN 1 ELSE 2 * Ulp(HalfOfNonNeg(a))
RoundNonNeg(a) ==
  LET m == Ulp(a)
      r == a[3] % m
      q == a[3] \div m
      up == 2 * r > m \/ (2 * r = m /\ q % 2 = 1)
  IN  Norm(a[2], a[3] - r + (IF up THEN m ELSE 0))
\* The float32 nearest to a count of halves.
RoundToFloat(x) ==
  IF x[2] >= 0 THEN RoundNonNeg(x) ELSE Neg(RoundNonNeg(Neg(x)))

\* data[i] < 0, data[i] >= 0, data[i] > 255, data[i] != 0.0f: every
\* comparison with NaN but != is false.
FloatLess0(x) == x # NaN /\ x[2] < 0
FloatAtLeast0(x) == x # NaN /\ x[2] >= 0
FloatAbove255(x) ==
  CASE IsNumber(x) -> Less(Wide(2 * 255), x)
    [] x[1] = 2    -> x[2] > 0
    [] OTHER       -> FALSE
FloatNot0(x) == x # Wide(0)
\* data[i] + 0.5f when sign = 1, data[i] + -0.5f when sign = -1.  The sum
\* is rounded to float32: 0.49999997f + 0.5f is 1.0f, and 8388609.0f + 0.5f
\* is 8388610.0f.  (The loops add the half of the sign of data[i]; for
\* 0.49999997f the sum with the other half is next to 0.)
FloatPlusHalf(x, sign) ==
  CASE IsNumber(x) -> RoundToFloat(Plus(x, sign))
    [] x[1] = 3 -> IF x[2] = sign THEN Wide(2 * sign) ELSE Wide(0)
    [] OTHER -> x
\* static_cast<float>(v) of an integer.
IntToFloat(x) == RoundToFloat(Twice(x))

\* ---- static_cast<T>(float) to an integer type T
\* The value is truncated toward zero; the behaviour is undefined when the
\* float is NaN or infinite or the truncated value is not a T.
InRange(type, w) ==
  CASE type = "int32" -> ~Less(w, Wide(INT32_MIN)) /\ ~Less(Wide(INT32_MAX), w)
    [] type = "uint8" -> ~Less(w, Wide(0)) /\ ~Less(Wide(255), w)
    [] OTHER -> TRUE
CastDefined(type, x) == IsNumber(x) /\ InRange(type, HalfTowardZero(x))
\* What builds make of the undefined cast: x86-64 cvttss2si gives the
\* most negative integer (its low byte, 0, for uint8_t); AArch64 fcvtzs
\* gives 0 for NaN and the nearest extreme otherwise.
MostNegative(type) ==
  CASE type = "int32" -> Wide(INT32_MIN)
    [] type = "int64" -> Int64Extreme(-1)
    [] OTHER -> Wide(0)
MostPositive(type) ==
  CASE type = "int32" -> Wide(INT32_MAX)
    [] type = "int64" -> Int64Extreme(1)
    [] OTHER -> Wide(255)
UndefinedCast(type, x) ==
  {MostNegative(type)} \cup
    (CASE x = NaN -> {Wide(0)}
       [] x[2] > 0 -> {MostPositive(type)}
       [] OTHER -> {})
CastFloat(type, x) ==
  IF CastDefined(type, x) THEN {HalfTowardZero(x)}
  ELSE UndefinedCast(type, x)

\* ---- the element loops
\* static_cast<int32_t> of an int64_t with no clamp before it: the low 32
\* bits.
WrapInt64(x) == <<0, ((x[2] + 2) % 4) - 2, x[3]>>
\* convertInt64To, target int32: val = data[i]; if (val > INT32_MAX)
\* val = INT32_MAX; if (val < INT32_MIN) val = INT32_MIN.
NarrowInt64(x) ==
  LET val == IF Less(Wide(INT32_MAX), x) THEN Wide(INT32_MAX) ELSE x
  IN  IF Less(val, Wide(INT32_MIN)) THEN Wide(INT32_MIN) ELSE val

\* static_cast<uint8_t> with no clamp before it: the low 8 bits.
WrapToByte(x) == Wide(x[3] % 256)
\* convertInt32To and convertInt64To, target uint8:
\* val = data[i] < 0 ? 0 : (data[i] > 255 ? 255 : data[i]).
ClampToByte(x) ==
  IF Less(x, Wide(0)) THEN Wide(0)
  ELSE IF Less(Wide(255), x) THEN Wide(255) ELSE x

\* A test for 1 in place of the test against 0.
IsOne(x) == x = Wide(1)
\* data[i] != 0 on an integer element.
NotZero(x) == x # Wide(0)
BoolElem(b) == IF b THEN Wide(1) ELSE Wide(0)
\* A true that is all ones, -1.
BoolAsAllOnes(x) == IF NotZero(x) THEN Wide(-1) ELSE Wide(0)
\* convertBoolTo: data[i] ? 1 : 0.
BoolAsNumber(x) == BoolElem(NotZero(x))
\* A byte widened as if it were signed.
WidenSigned(x) == IF Less(Wide(127), x) THEN Plus(x, -256) ELSE x
\* static_cast<int32_t>(data[i]) of a uint8_t, static_cast<int64_t>(data[i])
\* of a uint8_t or an int32_t: the same number.
Widen(x) == x

\* The body of the element loops of convertFloat32To, convertInt32To,
\* convertInt64To, convertUint8To and convertBoolTo: what new_data[i] can
\* become for data[i] = x.  More than one value only where the cast of a
\* float is undefined.
ConvertOutcomes(src, tgt, x) ==
  CASE src = "float32" /\ tgt \in {"int32", "int64"} ->
         UNION { CastFloat(tgt, val) :
                   val \in {FloatPlusHalf(x, IF FloatAtLeast0(x) THEN 1
                                                               ELSE -1)} }
    [] src = "float32" /\ tgt = "uint8" ->
         UNION { CastFloat("uint8", val) :
                   val \in {IF FloatLess0(x) THEN Wide(0)
                            ELSE IF FloatAbove255(x) THEN Wide(2 * 255)
                            ELSE FloatPlusHalf(x, 1)} }
    [] src = "float32" /\ tgt = "bool" -> {BoolElem(FloatNot0(x))}
    [] src \in {"int32", "int64", "uint8"} /\ tgt = "float32" ->
         {IntToFloat(x)}
    [] src = "int32" /\ tgt = "int64" -> {Widen(x)}
    [] src = "int64" /\ tgt = "int32" -> {NarrowInt64(x)}
    [] src \in {"int32", "int64"} /\ tgt = "uint8" -> {ClampToByte(x)}
    [] src \in {"int32", "int64", "uint8"} /\ tgt = "bool" ->
         {BoolElem(NotZero(x))}
    [] src = "uint8" /\ tgt \in {"int32", "int64"} -> {Widen(x)}
    [] src = "bool" /\ tgt = "float32" -> {Twice(BoolAsNumber(x))}
    [] src = "bool" /\ tgt \in {"int32", "int64", "uint8"} ->
         {BoolAsNumber(x)}
    [] OTHER -> {x}

\* The same on the elements of a buffer, which the registry's tensors hold
\* as plain integers.
ConvertElem(src, tgt, v) ==
  Plain(CHOOSE y \in ConvertOutcomes(src, tgt, Wide(v)) : TRUE)
ConvertElems(src, tgt, data) ==
  [i \in 1 .. Len(data) |-> ConvertElem(src, tgt, data[i])]

\* The targets convertXTo has a branch for, given the source type.
HasBranch(src, tgt) == tgt \in NumericTypes /\ tgt # src

\* ------------------------------------------------------- convertTensor
TargetTypes == {"float32", "int32", "string", "float16"}

\* Another thread is between the steps of a method that changes the maps:
\* an access made now without the mutex overlaps that change.
Mutating(t) ==
  \E u \in Threads \ {t} :
    th[u].pc \in {"create_ins", "rel_erase", "store_body", "cvx_ins",
                  "cv_ins", "cv_meta"}

\* A lookup by operator[], which inserts an empty entry under a key the
\* map does not have.
FindInserting(m, k) == Subscript(m, k)
\* tensors_.find(tensor_id): the map is as it was, whether it has the key
\* or not.
Find(m, k) == m

\* The three finds, the not-found throw, the float16 check (windows) and
\* the comparison of source and target type, all without the mutex.
convertTensor_lookup(t) ==
  /\ ~crashed
  /\ left > 0
  /\ left' = left - 1
  /\ UNCHANGED <<origin, created>>
  /\ th[t].pc = "idle"
  /\ Room
  /\ \E id \in HandleIds, target \in TargetTypes :
       LET me == [IdleThread EXCEPT !.op = "convertTensor", !.id = id,
                                    !.target = target]
           found == Has(tensors_, id) /\ Has(tensor_types_, id)
                    /\ Has(tensor_shapes_, id)
       IN
       /\ tensors_' = Find(tensors_, id)
       /\ \/ /\ UNCHANGED crashed
             /\ IF ~found
                THEN SetTh(t, [me EXCEPT
                       !.ret = RetThrow("Tensor not found")])
                ELSE IF platform = "windows" /\ target = "float16"
                THEN SetTh(t, [me EXCEPT
                       !.ret = RetThrow("float16 is not supported on Windows")])
                ELSE SetTh(t, [me EXCEPT
                       !.type = tensor_types_[id],
                       !.shape = tensors_[id].shape,
                       !.pc = IF tensor_types_[id] = target
                              THEN "cv_clone_lock" ELSE "cv_lock"])
          \/ /\ Mutating(t)
             /\ crashed' = TRUE
             /\ SetTh(t, [me EXCEPT !.pc = "crashed"])
  /\ UNCHANGED <<platform, mutex_, next_tensor_id_, tensor_types_,
                 tensor_shapes_, tensor_data_buffers_, heap, live>>

\* A clone that is a second view of the source's buffer.
CloneAddrShared(hp, tensor) == tensor.ptr
\* The clone's elements live in the buffer new T[element_count] (linux) or
\* std::vector<T> new_data (windows) that cloneTensor has just allocated.
CloneAddr(hp, tensor) == Len(hp) + 1

\* cloneTensor takes the mutex itself.
cloneTensor_lock(t) ==
  /\ ~crashed
  /\ UNCHANGED <<left, origin, created>>
  /\ th[t].pc = "cv_clone_lock"
  /\ CanLock(t)
  /\ mutex_' = t
  /\ SetTh(t, [th[t] EXCEPT !.pc = "cv_clone"])
  /\ UNCHANGED <<platform, next_tensor_id_, registry, heap, crashed, live>>

\* cloneTensor under the mutex: the lookups, the copy of the elements into
\* a new buffer and the native tensor over it, shaped as tensor_shapes_
\* says.  The mutex is released on return, before convertTensor stores
\* anything.
cloneTensor_body(t) ==
  LET id == th[t].id
      found == Has(tensors_, id) /\ Has(tensor_types_, id)
               /\ Has(tensor_shapes_, id)
  IN
  /\ ~crashed
  /\ UNCHANGED <<left, origin, created>>
  /\ th[t].pc = "cv_clone"
  /\ UNCHANGED <<platform, next_tensor_id_, registry, live>>
  /\ IF ~found
     THEN /\ Return(t, RetThrow("Tensor not found"))
          /\ mutex_' = Unlocked(t)
          /\ UNCHANGED <<heap, crashed>>
     ELSE
       LET tensor == tensors_[id]
           type == tensor_types_[id]
           shape == tensor_shapes_[id]
           n == ElemCount(tensor.shape)
       IN
       CASE tensor.kind = "null" ->
              Crash(t) /\ UNCHANGED <<mutex_, heap>>
         [] tensor.kind = "nontensor" ->
              /\ Return(t, RetThrow("Ort::Exception"))
              /\ mutex_' = Unlocked(t)
              /\ UNCHANGED <<heap, crashed>>
         [] tensor.kind = "tensor" /\ type \in NumericTypes ->
              IF tensor.etype = "string" \/ ~OrtCreateOk(n, shape)
              THEN /\ Return(t, RetThrow("Ort::Exception"))
                   /\ mutex_' = Unlocked(t)
                   /\ UNCHANGED <<heap, crashed>>
              ELSE
                \/ /\ \E d \in ReadElems(tensor, type) :
                        /\ heap' = Alloc(heap, d)
                        /\ SetTh(t, [th[t] EXCEPT
                             !.pc = "cv_gen",
                             !.tmp = ViewTensor(type, shape,
                                                CloneAddr(heap, tensor))])
                   /\ mutex_' = Unlocked(t)
                   /\ UNCHANGED crashed
                \/ /\ WildRead(tensor)
                   /\ Crash(t)
                   /\ UNCHANGED <<mutex_, heap>>
         [] tensor.kind = "tensor" /\ type = "string" ->
              /\ IF tensor.etype = "string" /\ OrtFillOk(n, shape)
                 THEN SetTh(t, [th[t] EXCEPT
                        !.pc = "cv_gen",
                        !.tmp = OwnTensor("string", shape,
                                          Prefix(tensor.own, n))])
                 ELSE Return(t, RetThrow("Ort::Exception"))
              /\ mutex_' = Unlocked(t)
              /\ UNCHANGED <<heap, crashed>>
         [] OTHER ->
              /\ Return(t, RetThrow("Unsupported tensor type"))
              /\ mutex_' = Unlocked(t)
              /\ UNCHANGED <<heap, crashed>>

\* Back in convertTensor, without the mutex: the write half of
\* generateTensorId and tensors_[new_tensor_id] = the clone; on windows
\* tensor_data_buffers_[new_tensor_id] = its buffer unless that is empty.
convertTensor_insert(t) ==
  LET me == th[t]
      new == TensorIdOf(me.rd)
      keep == platform = "windows" /\ me.tmp.ptr # 0
              /\ Len(heap[me.tmp.ptr].data) > 0
      hp1 == IF keep /\ Has(tensor_data_buffers_, new)
             THEN FreeCell(heap, tensor_data_buffers_[new]) ELSE heap
  IN
  /\ ~crashed
  /\ UNCHANGED <<left, created>>
  /\ me.pc = "cv_ins"
  /\ next_tensor_id_' = PostIncrement(me.rd)
  /\ tensors_' = Put(tensors_, new, me.tmp)
  /\ live' = live \cup {new}
  /\ origin' = Record(origin, new,
       Origin("clone", me.id, me.tmp.etype, me.tmp.shape,
              IF me.tmp.ptr = 0 THEN me.tmp.own
              ELSE heap[me.tmp.ptr].data))
  /\ tensor_data_buffers_' =
       IF keep THEN Put(tensor_data_buffers_, new, me.tmp.ptr)
               ELSE tensor_data_buffers_
  /\ heap' = hp1
  /\ SetTh(t, [me EXCEPT !.pc = "cv_meta", !.new_id = new])
  /\ UNCHANGED <<platform, mutex_, tensor_types_, tensor_shapes_, crashed>>

\* Still without the mutex: the shape is read through tensor_it and the
\* type through the reference source_type, both taken at the lookup; they
\* dangle when the source was released since (the read then gives what the
\* freed memory held, or something else, or the process dies).
convertTensor_meta(t) ==
  LET me == th[t]
      id == me.id
      new == me.new_id
  IN
  /\ ~crashed
  /\ UNCHANGED <<left, origin, created>>
  /\ me.pc = "cv_meta"
  /\ UNCHANGED <<platform, mutex_, next_tensor_id_, tensors_,
                 tensor_data_buffers_, heap, live>>
  /\ IF me.valid
     THEN IF tensors_[id].kind = "tensor"
          THEN /\ tensor_types_' = Put(tensor_types_, new, tensor_types_[id])
               /\ tensor_shapes_' =
                    Put(tensor_shapes_, new, tensors_[id].shape)
               /\ Return(t, RetHandle(new))
               /\ UNCHANGED crashed
          ELSE IF tensors_[id].kind = "null"
          THEN /\ Crash(t)
               /\ UNCHANGED <<tensor_types_, tensor_shapes_>>
          ELSE /\ Return(t, RetThrow("Ort::Exception"))
               /\ UNCHANGED <<tensor_types_, tensor_shapes_, crashed>>
     ELSE \/ /\ \E ty \in {me.type, "garbage"}, sh \in {me.shape, <<77>>} :
                  /\ tensor_types_' = Put(tensor_types_, new, ty)
                  /\ tensor_shapes_' = Put(tensor_shapes_, new, sh)
             /\ Return(t, RetHandle(new))
             /\ UNCHANGED crashed
          \/ /\ Crash(t)
             /\ UNCHANGED <<tensor_types_, tensor_shapes_>>

\* The other path: std::lock_guard after the lookup.
convertTensor_lock(t) ==
  /\ ~crashed
  /\ UNCHANGED <<left, origin, created>>
  /\ th[t].pc = "cv_lock"
  /\ CanLock(t)
  /\ mutex_' = t
  /\ SetTh(t, [th[t] EXCEPT !.pc = "cv_dispatch"])
  /\ UNCHANGED <<platform, next_tensor_id_, registry, heap, crashed, live>>

\* The dispatch on source_type (read through the reference, dangling when
\* the source was released since the lookup) and, in convertXTo,
\* tensors_[tensor_id], which inserts an empty entry for a missing key.
convertTensor_dispatch(t) ==
  LET me == th[t]
      id == me.id
  IN
  /\ ~crashed
  /\ UNCHANGED <<left, origin, created>>
  /\ me.pc = "cv_dispatch"
  /\ UNCHANGED <<platform, next_tensor_id_, tensor_types_, tensor_shapes_,
                 tensor_data_buffers_, heap, live>>
  /\ \/ /\ \E src \in (IF me.valid THEN {tensor_types_[id]}
                                   ELSE {me.type, "garbage"}) :
             IF src \in NumericTypes
             THEN /\ tensors_' = Subscript(tensors_, id)
                  /\ SetTh(t, [me EXCEPT !.pc = "cvx_deref", !.type = src])
                  /\ UNCHANGED mutex_
             ELSE /\ Return(t, RetThrow("Unsupported type conversion"))
                  /\ mutex_' = Free
                  /\ UNCHANGED tensors_
        /\ UNCHANGED crashed
     \/ /\ ~me.valid
        /\ Crash(t)
        /\ UNCHANGED <<mutex_, tensors_>>

\* convertXTo: tensor->GetTensorTypeAndShapeInfo(), the element count, the
\* shape and the data pointer.
convertX_deref(t) ==
  LET me == th[t]
      tensor == tensors_[me.id]
  IN
  /\ ~crashed
  /\ UNCHANGED <<left, origin, created>>
  /\ me.pc = "cvx_deref"
  /\ UNCHANGED <<platform, next_tensor_id_, registry, heap, live>>
  /\ CASE tensor.kind = "null" -> Crash(t) /\ UNCHANGED mutex_
       [] tensor.kind = "nontensor" \/ tensor.etype = "string" ->
            /\ Return(t, RetThrow("Ort::Exception"))
            /\ mutex_' = Free
            /\ UNCHANGED crashed
       [] OTHER ->
            /\ SetTh(t, [me EXCEPT !.pc = "cvx_gen", !.tmp = tensor,
                                   !.shape = tensor.shape])
            /\ UNCHANGED <<mutex_, crashed>>

\* convertXTo after generateTensorId's read: its write, the throw for a
\* target without a branch, else the element loop into a new buffer, the
\* native tensor and the map insertions.
convertX_body(t) ==
  LET me == th[t]
      new == TensorIdOf(me.rd)
      addr == Len(heap) + 1
  IN
  /\ ~crashed
  /\ UNCHANGED <<left, created>>
  /\ me.pc = "cvx_ins"
  /\ next_tensor_id_' = PostIncrement(me.rd)
  /\ UNCHANGED platform
  /\ IF ~HasBranch(me.type, me.target)
     THEN /\ Return(t, RetThrow("Unsupported type"))
          /\ mutex_' = Free
          /\ UNCHANGED <<registry, heap, crashed, live, origin>>
     ELSE
       \/ /\ \E d \in ReadElems(me.tmp, me.type) :
               LET out == ElemsOf(me.target,
                                  ConvertElems(me.type, me.target, d))
                   hp1 == Alloc(heap, out)
               IN
               /\ heap' = IF platform = "windows"
                             /\ Has(tensor_data_buffers_, new)
                          THEN FreeCell(hp1, tensor_data_buffers_[new])
                          ELSE hp1
               /\ origin' = Record(origin, new,
                    Origin("convert", me.id, me.target, me.shape, out))
          /\ tensors_' = Put(tensors_, new,
                             ViewTensor(me.target, me.shape, addr))
          /\ tensor_data_buffers_' =
               IF platform = "windows"
               THEN Put(tensor_data_buffers_, new, addr)
               ELSE tensor_data_buffers_
          /\ tensor_shapes_' = Put(tensor_shapes_, new, me.shape)
          /\ tensor_types_' = Put(tensor_types_, new, me.target)
          /\ live' = live \cup {new}
          /\ Return(t, RetHandle(new))
          /\ mutex_' = Free
          /\ UNCHANGED crashed
       \/ /\ WildRead(me.tmp)
          /\ Crash(t)
          /\ UNCHANGED <<mutex_, registry, heap, live, origin>>

\* ------------------------------------------------------ specification
Step(t) ==
  \/ createTensor_lock(t)
  \/ generateTensorId_read(t)
  \/ createTensor_body(t)
  \/ getTensorData_lock(t)
  \/ getTensorData_body(t)
  \/ releaseTensor_lock(t)
  \/ releaseTensor_find(t)
  \/ releaseTensor_erase(t)
  \/ getTensor_lock(t)
  \/ getTensor_body(t)
  \/ getTensorType_lock(t)
  \/ getTensorType_body(t)
  \/ getTensorShape_lock(t)
  \/ getTensorShape_body(t)
  \/ storeTensor_lock(t)
  \/ storeTensor_body(t)
  \/ convertTensor_lookup(t)
  \/ cloneTensor_lock(t)
  \/ cloneTensor_body(t)
  \/ convertTensor_insert(t)
  \/ convertTensor_meta(t)
  \/ convertTensor_lock(t)
  \/ convertTensor_dispatch(t)
  \/ convertX_deref(t)
  \/ convertX_body(t)

\* Calls from any thread, overlapping freely.
Next == \E t \in Threads : Step(t)
Spec == Init /\ [][Next]_vars

\* Fair scheduling: a thread that is inside a method and can take its next
\* step (it is runnable, or the mutex it waits for is free) is not left
\* waiting for ever.  std::mutex promises no fairness among its waiters;
\* with finitely many calls weak fairness is enough.  A thread between
\* calls makes its next call or does not.
Progress(t) == th[t].pc # "idle" /\ Step(t)
SpecFair == Spec /\ \A t \in Threads : WF_vars(Progress(t))

\* Calls that do not overlap: one caller.
InitSeq == InitCalls(MaxSeqCalls)
NextSeq == Step(1)
SpecSeq == InitSeq /\ [][NextSeq]_vars

\* ------------------------------------------------------- ~TensorManager
\* The destructor, run by the one caller between its calls: under the
\* mutex it clears tensors_, tensor_types_ and tensor_shapes_, and on
\* windows tensor_data_buffers_, whose vectors free their storage.  The
\* arrays linux allocated with new T[] are owned by nothing the destructor
\* clears.  No method is called on the object afterwards.
destructor(t) ==
  /\ ~crashed
  /\ th[t].pc = "idle" /\ th[t].op # "~TensorManager"
  /\ CanLock(t)
  /\ tensors_' = EmptyMap
  /\ tensor_types_' = EmptyMap
  /\ tensor_shapes_' = EmptyMap
  /\ tensor_data_buffers_' = EmptyMap
  /\ heap' = [a \in DOMAIN heap |->
               IF \E k \in DOMAIN tensor_data_buffers_ :
                    tensor_data_buffers_[k] = a
               THEN FreeCell(heap, a)[a] ELSE heap[a]]
  /\ live' = {}
  /\ origin' = EmptyMap
  /\ created' = EmptyMap
  /\ left' = 0
  /\ SetTh(t, [IdleThread EXCEPT !.op = "~TensorManager"])
  /\ mutex_' = Free
  /\ UNCHANGED <<platform, next_tensor_id_, crashed>>

\* One caller that makes its calls and then destroys the registry.
NextTeardown == Step(1) \/ destructor(1)
SpecTeardown == InitSeq /\ [][NextTeardown]_vars

\* Calls of create*Tensor and getTensorData only, from any thread,
\* overlapping freely.
NextCreate ==
  \E t \in Threads :
    \/ createTensor_lock(t)
    \/ generateTensorId_read(t)
    \/ createTensor_body(t)
    \/ getTensorData_lock(t)
    \/ getTensorData_body(t)
SpecCreate == Init /\ [][NextCreate]_vars

\* One element through one element loop: the source type, the target type
\* and the element data[i] are drawn at the start, and the step is one
\* pass of the loop body, leaving new_data[i] in ret.data.
Float32Inputs ==
  {Wide(v) : v \in {0, 1, -1, 2, 3, -3, 5, -5, 7, -20, 508, 509, 510, 511,
                     600, 16777218, -16777218}}
    \cup {<<0, 5, 631290880>>, <<0, -6, 442450944>>}
    \cup {NaN, Infinity(1), Infinity(-1), BelowHalf(1), BelowHalf(-1)}
Int32Inputs ==
  {Wide(v) : v \in {0, 1, 2, -1, -10, 255, 256, 261, 300, -256,
                     INT32_MAX, INT32_MIN}}
Int64Inputs ==
  Int32Inputs \cup {<<0, 2, 0>>, <<0, 4, 5>>, <<0, 4, 705032704>>,
                    <<0, -3, LimbBase - 1>>, <<0, -4, 0>>, <<0, -4, 5>>}
ElementInputs(src) ==
  CASE src = "float32" -> Float32Inputs
    [] src = "int32"   -> Int32Inputs
    [] src = "int64"   -> Int64Inputs
    [] src = "uint8"   -> {Wide(v) : v \in {0, 1, 2, 255}}
    [] OTHER           -> {Wide(0), Wide(1)}

InitConv ==
  /\ platform \in Platforms
  /\ mutex_ = Free
  /\ next_tensor_id_ = 1
  /\ tensors_ = EmptyMap
  /\ tensor_types_ = EmptyMap
  /\ tensor_shapes_ = EmptyMap
  /\ tensor_data_buffers_ = EmptyMap
  /\ heap = <<>>
  /\ crashed = FALSE
  /\ live = {}
  /\ origin = EmptyMap
  /\ created = EmptyMap
  /\ left = 0
  /\ \E src \in NumericTypes, tgt \in NumericTypes :
       /\ HasBranch(src, tgt)
       /\ \E x \in ElementInputs(src) :
            th = [t \in Threads |->
                   IF t = 1
                   THEN [IdleThread EXCEPT !.pc = "elem",
                                           !.op = "convertElement",
                                           !.type = src, !.target = tgt,
                                           !.data = x]
                   ELSE IdleThread]

convertElement(t) ==
  /\ th[t].pc = "elem"
  /\ \E y \in ConvertOutcomes(th[t].type, th[t].target, th[t].data) :
       SetTh(t, [th[t] EXCEPT !.pc = "idle",
                              !.ret = RetData(<<>>, th[t].target, y)])
  /\ UNCHANGED <<platform, mutex_, next_tensor_id_, registry, heap, crashed,
                 live, origin, created, left>>

\* A second pass: the element the first pass produced goes through the
\* loop from the target type back to the source type.  tmp.own keeps the
\* element in between.
convertElementBack(t) ==
  /\ th[t].pc = "idle" /\ th[t].op = "convertElement"
  /\ IsNumber(th[t].ret.data)
  /\ \E z \in ConvertOutcomes(th[t].target, th[t].type, th[t].ret.data) :
       SetTh(t, [th[t] EXCEPT !.op = "convertElementBack",
                              !.tmp.own = th[t].ret.data,
                              !.ret = RetData(<<>>, th[t].type, z)])
  /\ UNCHANGED <<platform, mutex_, next_tensor_id_, registry, heap, crashed,
                 live, origin, created, left>>

NextConv == convertElement(1) \/ convertElementBack(1)
SpecConv == InitConv /\ [][NextConv]_vars

\* ============================================================== claims
\* The positions from which a thread's next step reads or writes
\* tensors_, tensor_types_, tensor_shapes_, tensor_data_buffers_ or
\* next_tensor_id_.
AccessPcs ==
  {"create_gen", "create_ins", "gtd_body", "rel_find", "rel_erase",
   "gt_body", "gty_body", "gsh_body", "store_body", "cv_clone", "cv_gen",
   "cv_ins", "cv_meta", "cv_dispatch", "cvx_deref", "cvx_gen", "cvx_ins"}

\* C1: every read or write of the registry maps and every handle
\* allocation happens while the executing thread holds the registry mutex;
\* in particular convertTensor generates its handle and inserts the new
\* record inside the critical section.  (Refuted: after cloneTensor returns,
\* convertTensor calls generateTensorId and writes the maps with the mutex
\* released.)
C1_AccessUnderMutex ==
  \A t \in Threads : th[t].pc \in AccessPcs => mutex_ = t

\* C2: whatever the interleaving of convertTensor(h, T) with
\* releaseTensor(h), convertTensor never reads the type, shape or native
\* tensor of h through what it looked up before the release destroyed
\* them, and never puts an empty entry back under h.  (Refuted.)
C2_ConvertAgainstRelease ==
  /\ \A t \in Threads :
       th[t].pc \in {"cv_meta", "cv_dispatch"} => th[t].valid
  /\ \A h \in DOMAIN tensors_ : tensors_[h].kind # "null"

\* C3: with create*Tensor calls overlapping in any way, each call that
\* returns a handle returns one under which no record exists yet (so it
\* differs from every handle returned before and overwrites nothing), and
\* getTensorData on a created handle returns the type, the shape and
\* exactly the data passed to the call that created it (for data whose
\* length is the product of the shape, as create*Tensor requires).
C3_ConcurrentCreate ==
  [][\A t \in Threads :
       /\ (th[t].pc = "create_ins" /\ th'[t].ret.kind = "handle")
            => th'[t].ret.h \notin DOMAIN tensors_
       /\ (/\ th[t].pc = "gtd_body"
           /\ Has(created, th[t].id)
           /\ Len(created[th[t].id].data)
                = ElemCount(created[th[t].id].shape))
            => /\ th'[t].ret.kind = "data"
               /\ th'[t].ret.type = created[th[t].id].type
               /\ th'[t].ret.shape = created[th[t].id].shape
               /\ th'[t].ret.data = created[th[t].id].data]_vars

\* Two threads have created a tensor each and one of the two has then
\* read its data back.
C3_Witness ==
  /\ th[1].pc = "idle" /\ th[1].op = "create" /\ th[1].ret.kind = "handle"
  /\ th[2].pc = "idle" /\ th[2].op = "getTensorData"
  /\ th[2].ret.kind = "data"
  /\ th[2].id # th[1].ret.h
  /\ Cardinality(DOMAIN created) = 2

\* C4: a handle that create*Tensor or convertTensor (the same-type clone
\* included) allocates differs from every handle that is live at that
\* moment, so that storing the new record overwrites no live one.
\* (Refuted: two overlapping same-type conversions draw the same handle.)
C4_FreshHandle ==
  [][\A t \in Threads :
       /\ (th[t].pc = "create_ins" /\ th'[t].ret.kind = "handle")
            => th'[t].ret.h \notin live
       /\ (th[t].pc = "cv_ins" /\ th'[t].pc = "cv_meta")
            => th'[t].new_id \notin live
       /\ (th[t].pc = "cvx_ins" /\ th'[t].ret.kind = "handle")
            => th'[t].ret.h \notin live]_vars

\* C5: in a sequence of calls, releaseTensor(h) returns true when h is
\* live (a tensor was put under h and no release has returned true since)
\* and false otherwise, be it after an earlier release or for a handle that
\* never existed; it never throws.
C5_ReleaseOnce ==
  [][\A t \in Threads :
       (th[t].op = "releaseTensor" /\ th[t].pc # "idle"
        /\ th'[t].pc = "idle")
         => /\ th'[t].ret.kind = "bool"
            /\ th'[t].ret.b = (th[t].id \in live)]_vars

\* On windows the buffer of a float32 tensor has been freed by a release,
\* and a further release of a handle that is not live has returned false.
C5_Witness ==
  /\ platform = "windows"
  /\ Len(heap) = 1 /\ ~heap[1].live /\ heap[1].data = <<5, -5>>
  /\ th[1].pc = "idle" /\ th[1].op = "releaseTensor"
  /\ th[1].id \in Issued
  /\ th[1].ret.kind = "bool" /\ ~th[1].ret.b

NotFoundErrors == {"std::out_of_range", "Tensor not found"}

\* C6: in a sequence of calls, for a handle that is not live (released, or
\* never created) getTensorData returns the null sentinel without
\* throwing, and getTensorType and getTensorShape each throw a not-found
\* error.
C6_LookupsOfDeadHandle ==
  \A t \in Threads :
    (th[t].pc = "idle" /\ th[t].id \notin live) =>
      /\ th[t].op = "getTensorData" => th[t].ret.kind = "null"
      /\ th[t].op \in {"getTensorType", "getTensorShape"} =>
           /\ th[t].ret.kind = "throw"
           /\ th[t].ret.err \in NotFoundErrors

\* getTensorType has thrown for a handle whose float32 tensor was released
\* before (windows shows the release in the freed buffer).
C6_Witness ==
  /\ platform = "windows"
  /\ Len(heap) = 1 /\ ~heap[1].live /\ heap[1].data = <<5, -5>>
  /\ th[1].pc = "idle" /\ th[1].op = "getTensorType"
  /\ th[1].id \in Issued /\ th[1].id \notin live
  /\ th[1].ret.kind = "throw"

\* C7: in a sequence of calls, when releaseTensor(h) returns true no entry
\* under h remains in any of the maps and the buffer behind the native
\* tensor of h is freed; and whenever the mutex is free, every buffer the
\* registry holds has its native tensor.  (Refuted: linux never frees the
\* buffer.)
C7_ReleaseRemovesAll ==
  [][\A t \in Threads :
       /\ (th[t].pc = "rel_erase" /\ th'[t].pc = "idle") =>
            /\ th'[t].ret.b
            /\ ~Has(tensors_', th[t].id)
            /\ ~Has(tensor_types_', th[t].id)
            /\ ~Has(tensor_shapes_', th[t].id)
            /\ ~Has(tensor_data_buffers_', th[t].id)
            /\ th[t].tmp.ptr # 0 => ~heap'[th[t].tmp.ptr].live
       /\ mutex_' = Free =>
            \A h \in DOMAIN tensor_data_buffers_' : Has(tensors_', h)]_vars

\* h still holds the tensor its create*Tensor call put there.
AsCreated(h) == Has(created, h) /\ origin[h].by = "create"

WellFormed(h) ==
  /\ Has(tensors_, h) /\ Has(tensor_types_, h) /\ Has(tensor_shapes_, h)
  /\ tensors_[h].kind = "tensor"
  /\ tensors_[h].etype = tensor_types_[h]
  /\ tensors_[h].shape = tensor_shapes_[h]
\* The elements of the native tensor under h.
DataOf(h) == Prefix(TensorElems(tensors_[h]), ElemCount(tensors_[h].shape))

\* C10: in a sequence of calls, convertTensor(h, T) on a live h whose type
\* is the numeric type T returns a handle h2 # h under which the registry
\* holds the same type, the same shape and the same elements, in a buffer
\* of its own.
C10_SameTypeIsClone ==
  \A t \in Threads :
    (/\ th[t].pc = "idle" /\ th[t].op = "convertTensor"
     /\ WellFormed(th[t].id)
     /\ tensor_types_[th[t].id] \in NumericTypes
     /\ th[t].target = tensor_types_[th[t].id])
    => /\ th[t].ret.kind = "handle"
       /\ th[t].ret.h # th[t].id
       /\ WellFormed(th[t].ret.h)
       /\ tensor_types_[th[t].ret.h] = tensor_types_[th[t].id]
       /\ tensor_shapes_[th[t].ret.h] = tensor_shapes_[th[t].id]
       /\ DataOf(th[t].ret.h) = DataOf(th[t].id)
       /\ tensors_[th[t].ret.h].ptr # tensors_[th[t].id].ptr

\* A same-type conversion of a float32 tensor has returned its clone.
C10_Witness ==
  /\ th[1].pc = "idle" /\ th[1].op = "convertTensor"
  /\ th[1].target = "float32"
  /\ th[1].ret.kind = "handle"
  /\ Has(origin, th[1].ret.h) /\ origin[th[1].ret.h].by = "clone"
  /\ DataOf(th[1].ret.h) = <<5, -5>>

\* C11: in a sequence of calls, a clone and its source are independent:
\* no step of releaseTensor(x) touches the record of another handle y (its
\* native tensor, type, shape, elements and the buffer they are in), so
\* after h2 = convertTensor(h, type of h) releasing h leaves h2 as it was
\* and releasing h2 leaves h as it was; and getTensorData on a clone whose
\* source has been released returns the type, shape and elements that were
\* cloned.
C11_CloneIndependent ==
  /\ [][\A t \in Threads :
         (th[t].op = "releaseTensor" /\ th[t].pc \in {"rel_find", "rel_erase"})
         => \A y \in HandleIds \ {th[t].id} :
              /\ Has(tensors_, y) =>
                   /\ Has(tensors_', y) /\ tensors_'[y] = tensors_[y]
                   /\ TensorElems(tensors_[y])' = TensorElems(tensors_[y])
                   /\ tensors_[y].ptr # 0 =>
                        heap'[tensors_[y].ptr].live = heap[tensors_[y].ptr].live
              /\ Has(tensor_types_, y) =>
                   Has(tensor_types_', y) /\ tensor_types_'[y] = tensor_types_[y]
              /\ Has(tensor_shapes_, y) =>
                   /\ Has(tensor_shapes_', y)
                   /\ tensor_shapes_'[y] = tensor_shapes_[y]]_vars
  /\ [](\A t \in Threads :
         (/\ th[t].pc = "idle" /\ th[t].op = "getTensorData"
          /\ Has(origin, th[t].id) /\ origin[th[t].id].by = "clone"
          /\ origin[th[t].id].type \in NumericTypes
          /\ ~Has(tensors_, origin[th[t].id].from))
         => /\ th[t].ret.kind = "data"
            /\ th[t].ret.type = origin[th[t].id].type
            /\ th[t].ret.shape = origin[th[t].id].shape
            /\ th[t].ret.data = origin[th[t].id].data)

\* getTensorData has returned the elements of a clone of a float32 tensor
\* after the source of the clone was released.
C11_Witness ==
  /\ th[1].pc = "idle" /\ th[1].op = "getTensorData"
  /\ Has(origin, th[1].id) /\ origin[th[1].id].by = "clone"
  /\ ~Has(tensors_, origin[th[1].id].from)
  /\ ~Has(tensor_types_, origin[th[1].id].from)
  /\ th[1].ret.kind = "data" /\ th[1].ret.data = <<5, -5>>

\* The errors with which convertTensor refuses a source type or a pair of
\* source and target type.
UnsupportedErrors ==
  {"Unsupported type conversion", "Unsupported type",
   "float16 is not supported on Windows"}

\* C12: in a sequence of calls, convertTensor(h, T) on a live h fails with an
\* unsupported-conversion error and returns no handle whenever h holds a
\* string tensor or T is string, T = string on a string tensor included.
C12_StringNeverConverts ==
  \A t \in Threads :
    (/\ th[t].pc = "idle" /\ th[t].op = "convertTensor"
     /\ WellFormed(th[t].id)
     /\ tensor_types_[th[t].id] = "string" \/ th[t].target = "string")
    => /\ th[t].ret.kind = "throw"
       /\ th[t].ret.err \in UnsupportedErrors

\* C13: neither platform converts to float16, and convertTensor(h, float16)
\* is refused where the handle is looked up, before source and target type
\* are compared: the call never goes on to cloneTensor or to a convertXTo,
\* and it ends in an error (not found, or unsupported conversion when h is
\* live), whatever the type recorded under h, float16 included.
C13_Float16Rejected ==
  \A t \in Threads :
    (th[t].op = "convertTensor" /\ th[t].target = "float16")
    => /\ th[t].pc = "idle"
       /\ th[t].ret.kind = "throw"
       /\ th[t].ret.err \in UnsupportedErrors \cup NotFoundErrors

\* C14: in a sequence of calls, a create*Tensor or convertTensor call that
\* fails leaves the registry as it found it: a step of such a call changes
\* the maps or the set of live handles only when it returns a handle or
\* when it is the insertion of a clone, after which the call cannot fail;
\* and the handle a failing call has drawn has no entry in any map.
C14_FailureLeavesRegistry ==
  [][\A t \in Threads :
       (th'[t] # th[t] /\ th'[t].op \in {"create", "convertTensor"})
       => /\ (registry' # registry \/ live' # live)
               => \/ th'[t].pc = "cv_meta"
                  \/ th'[t].pc = "idle" /\ th'[t].ret.kind = "handle"
          /\ th[t].pc = "cv_meta"
               => th'[t].pc = "idle" /\ th'[t].ret.kind = "handle"
          /\ (/\ th[t].pc \in {"create_ins", "cvx_ins"}
              /\ th'[t].ret.kind = "throw")
               => /\ ~Has(tensors_', TensorIdOf(th[t].rd))
                  /\ ~Has(tensor_types_', TensorIdOf(th[t].rd))
                  /\ ~Has(tensor_shapes_', TensorIdOf(th[t].rd))
                  /\ ~Has(tensor_data_buffers_', TensorIdOf(th[t].rd))
                  /\ TensorIdOf(th[t].rd) \notin live']_vars

\* convertTensor on a live float32 tensor has failed in convertFloat32To
\* for want of a branch for the target, after a handle was drawn: the
\* source is still recorded and nothing is recorded under the drawn handle.
C14_Witness ==
  /\ th[1].pc = "idle" /\ th[1].op = "convertTensor"
  /\ th[1].ret.kind = "throw" /\ th[1].ret.err = "Unsupported type"
  /\ WellFormed(th[1].id) /\ tensor_types_[th[1].id] = "float32"
  /\ next_tensor_id_ = 3
  /\ ~Has(tensors_, TensorIdOf(2)) /\ ~Has(tensor_types_, TensorIdOf(2))

\* C15: storeTensor(id, v), for an id that holds nothing, with a native
\* value that is not a tensor or whose element type has no tag, reports an
\* error to its caller and leaves nothing under id: no native tensor (so
\* that getTensor(id) is null and releaseTensor(id) false), no type and no
\* shape.
C15_FailedStoreLeavesNothing ==
  [][\A t \in Threads :
       (/\ th[t].pc = "store_body"
        /\ th'[t].pc = "idle"
        /\ ~Has(tensors_, th[t].id)
        /\ \/ th[t].tmp.kind # "tensor"
           \/ getElementTypeString(th[t].tmp.etype) = "throw")
       => /\ th'[t].ret.kind = "throw"
          /\ ~Has(tensors_', th[t].id)
          /\ ~Has(tensor_types_', th[t].id)
          /\ ~Has(tensor_shapes_', th[t].id)]_vars

\* A pass of an element loop from source type src to a target in tgts has
\* ended in thread t; its input is th[t].data, its result th[t].ret.data.
ElementDone(t, srcs, tgts) ==
  /\ th[t].pc = "idle" /\ th[t].op = "convertElement"
  /\ th[t].type \in srcs /\ th[t].target \in tgts
\* A real number (a count of halves, or 0.49999997) rounded to the nearest
\* integer, a tie going away from zero.
RoundHalfAway(x) ==
  IF ~IsNumber(x) THEN Wide(0)
  ELSE HalfTowardZero(Plus(x, IF x[2] >= 0 THEN 1 ELSE -1))
IsByte(r) == IsNumber(r) /\ r[2] = 0 /\ r[3] <= 255

\* C16: float32 to uint8 gives a value in 0..255 for every float32 v: 0
\* when v < 0, 255 when v > 255, and for every other number v rounded to
\* the nearest integer, a tie going away from zero.
C16_Float32ToUint8 ==
  \A t \in Threads :
    ElementDone(t, {"float32"}, {"uint8"}) =>
      LET v == th[t].data
          r == th[t].ret.data
      IN  /\ IsByte(r)
          /\ v # NaN =>
               r = IF v[2] < 0 THEN Wide(0)
                   ELSE IF v = Infinity(1) \/ (IsNumber(v) /\ Less(Wide(510), v))
                   THEN Wide(255)
                   ELSE RoundHalfAway(v)

\* C17: int64 to int32 gives INT32_MAX for every v > INT32_MAX, INT32_MIN
\* for every v < INT32_MIN and v itself otherwise.
C17_Int64ToInt32 ==
  \A t \in Threads :
    ElementDone(t, {"int64"}, {"int32"}) =>
      LET v == th[t].data
          r == th[t].ret.data
      IN  r = IF Less(Wide(INT32_MAX), v) THEN Wide(INT32_MAX)
              ELSE IF Less(v, Wide(INT32_MIN)) THEN Wide(INT32_MIN)
              ELSE v

\* 5000000000 has been converted to INT32_MAX.
C17_Witness ==
  /\ ElementDone(1, {"int64"}, {"int32"})
  /\ th[1].data = <<0, 4, 705032704>>
  /\ Plain(th[1].ret.data) = 2147483647

\* C18: float32 to int32 and to int64 give, for every finite v, v rounded
\* to the nearest integer, a tie going away from zero: trunc(v + 0.5) for
\* v >= 0 and trunc(v - 0.5) for v < 0.
C18_Float32ToInt ==
  \A t \in Threads :
    (/\ ElementDone(t, {"float32"}, {"int32", "int64"})
     /\ th[t].data[1] \in {0, 3})
    => th[t].ret.data = RoundHalfAway(th[t].data)

\* C19: int32 and int64 to uint8 give 0 for every v < 0, 255 for every
\* v > 255 and v itself otherwise.
C19_IntToUint8 ==
  \A t \in Threads :
    ElementDone(t, {"int32", "int64"}, {"uint8"}) =>
      LET v == th[t].data
          r == th[t].ret.data
      IN  r = IF Less(v, Wide(0)) THEN Wide(0)
              ELSE IF Less(Wide(255), v) THEN Wide(255)
              ELSE v

\* The int64 2^32 + 5, which is 5 modulo 256, has been converted to 255.
C19_Witness ==
  /\ ElementDone(1, {"int64"}, {"uint8"})
  /\ th[1].data = <<0, 4, 5>>
  /\ th[1].ret.data = <<0, 0, 255>>

\* C20: float32, int32, int64 and uint8 to bool give true exactly for the
\* elements that differ from 0.
C20_ToBoolIsTruthiness ==
  \A t \in Threads :
    ElementDone(t, {"float32", "int32", "int64", "uint8"}, {"bool"}) =>
      /\ th[t].ret.data \in {<<0, 0, 0>>, <<0, 0, 1>>}
      /\ th[t].ret.data = <<0, 0, 1>> <=> th[t].data # <<0, 0, 0>>

\* The int64 -(2^32), whose low 32 bits are 0, has been converted to true.
C20_Witness ==
  /\ ElementDone(1, {"int64"}, {"bool"})
  /\ th[1].data = <<0, -4, 0>>
  /\ th[1].ret.data = <<0, 0, 1>>

\* A pass from srcs to tgts and the pass back have ended in thread t: the
\* first input is th[t].data, the element in between th[t].tmp.own, the
\* final result th[t].ret.data.
RoundTripDone(t, srcs, tgts) ==
  /\ th[t].pc = "idle" /\ th[t].op = "convertElementBack"
  /\ th[t].type \in srcs /\ th[t].target \in tgts

\* C21: a bool converts to 1 when true and to 0 when false in float32
\* (1.0f, 0.0f), int32, int64 and uint8, and the result converted back to
\* bool is the original element.
C21_BoolToNumber ==
  \A t \in Threads :
    /\ ElementDone(t, {"bool"}, {"float32", "int32", "int64", "uint8"}) =>
         th[t].ret.data =
           IF th[t].target = "float32"
           THEN (IF th[t].data = <<0, 0, 1>> THEN <<0, 0, 2>> ELSE <<0, 0, 0>>)
           ELSE th[t].data
    /\ RoundTripDone(t, {"bool"}, {"float32", "int32", "int64", "uint8"}) =>
         th[t].ret.data = th[t].data

\* true has gone to 1.0f and back to true.
C21_Witness ==
  /\ RoundTripDone(1, {"bool"}, {"float32"})
  /\ th[1].data = <<0, 0, 1>>
  /\ th[1].tmp.own = <<0, 0, 2>>
  /\ th[1].ret.data = <<0, 0, 1>>

\* C22: uint8 to int32, uint8 to int64 and int32 to int64 give the same
\* number, and the result converted back to the source type is the
\* original element.
C22_WideningPreserves ==
  \A t \in Threads :
    LET widening == \/ th[t].type = "uint8" /\ th[t].target \in {"int32", "int64"}
                    \/ th[t].type = "int32" /\ th[t].target = "int64"
    IN  /\ (ElementDone(t, NumericTypes, NumericTypes) /\ widening)
             => th[t].ret.data = th[t].data
        /\ (RoundTripDone(t, NumericTypes, NumericTypes) /\ widening)
             => /\ th[t].tmp.own = th[t].data
                /\ th[t].ret.data = th[t].data

\* The int32 -10 has gone to the int64 -10 and back.
C22_Witness ==
  /\ RoundTripDone(1, {"int32"}, {"int64"})
  /\ th[1].data = Wide(-10)
  /\ Plain(th[1].tmp.own) = -10
  /\ Plain(th[1].ret.data) = -10

\* Two handles that convertTensor has returned for the same source and the
\* same target type, neither stored over since.
SameConversion(h2, h3) ==
  /\ h2 # h3
  /\ Has(origin, h2) /\ origin[h2].by \in {"convert", "clone"}
  /\ Has(origin, h3) /\ origin[h3].by \in {"convert", "clone"}
  /\ origin[h2].from = origin[h3].from
  /\ origin[h2].type = origin[h3].type

C24_ConversionKeepsShape ==
  \A t \in Threads :
    (/\ th[t].pc = "idle" /\ th[t].op = "convertTensor"
     /\ th[t].ret.kind = "handle") =>
      LET h == th[t].id
          new == th[t].ret.h
      IN  /\ Has(tensors_, h) /\ Has(tensor_shapes_, h)
          /\ Has(tensors_, new) /\ Has(tensor_shapes_, new)
          /\ Has(tensor_types_, new)
          /\ tensor_shapes_[new] = tensor_shapes_[h]
          /\ tensors_[new].kind = "tensor"
          /\ tensors_[new].shape = tensors_[h].shape
          /\ tensors_[new].shape = tensor_shapes_[new]
          /\ Len(TensorElems(tensors_[new])) = ElemCount(tensors_[h].shape)
          /\ tensor_types_[new] = th[t].target
          /\ tensors_[new].etype = th[t].target

\* An int32 tensor created over a buffer longer than its shape has been
\* converted to float32: the new buffer has the one element of the shape.
C24_Witness ==
  \E h \in HandleIds :
    /\ AsCreated(h) /\ created[h].type = "int32"
    /\ Has(tensors_, h)
    /\ Len(TensorElems(tensors_[h])) > ElemCount(tensors_[h].shape)
    /\ th[1].pc = "idle" /\ th[1].op = "convertTensor" /\ th[1].id = h
    /\ th[1].target = "float32"
    /\ th[1].ret.kind = "handle"
    /\ tensor_types_[th[1].ret.h] = "float32"
    /\ Len(TensorElems(tensors_[th[1].ret.h])) = 1

\* Thread t has taken the step (a release also clears the valid flag of
\* the other threads' iterators, which is no step of theirs).
Actor(t) == [th[t] EXCEPT !.valid = TRUE] # [th'[t] EXCEPT !.valid = TRUE]

\* The step leaves what the registry holds under h as it was: the native
\* tensor, its elements and the buffer under them, the type, the shape and
\* the buffer entry.
RecordKept(h) ==
  /\ Has(tensors_, h) =>
       /\ Has(tensors_', h) /\ tensors_'[h] = tensors_[h]
       /\ tensors_[h].ptr # 0 =>
            /\ heap'[tensors_[h].ptr] = heap[tensors_[h].ptr]
  /\ Has(tensor_types_, h) =>
       Has(tensor_types_', h) /\ tensor_types_'[h] = tensor_types_[h]
  /\ Has(tensor_shapes_, h) =>
       Has(tensor_shapes_', h) /\ tensor_shapes_'[h] = tensor_shapes_[h]
  /\ Has(tensor_data_buffers_, h) =>
       /\ Has(tensor_data_buffers_', h)
       /\ tensor_data_buffers_'[h] = tensor_data_buffers_[h]
       /\ heap'[tensor_data_buffers_[h]] = heap[tensor_data_buffers_[h]]

\* C25: no step of an operation other than releaseTensor(h) and
\* storeTensor(h, _) changes or removes what the registry holds under h;
\* in particular every step of convertTensor(h, T), to its return or its
\* failure, leaves the type, shape and data under h as they were.
C25_ConvertKeepsSource ==
  [][\A t \in Threads, h \in HandleIds :
       (/\ Actor(t)
        /\ ~(th'[t].op \in {"releaseTensor", "storeTensor"}
             /\ th'[t].id = h)) => RecordKept(h)]_vars

\* convertTensor(h, int32) has returned a handle for a float32 source that
\* still holds its elements.
C25_Witness ==
  \E h \in HandleIds :
    /\ AsCreated(h) /\ WellFormed(h) /\ created[h].type = "float32"
    /\ DataOf(h) = ElemsOf("float32", created[h].data)
    /\ th[1].pc = "idle" /\ th[1].op = "convertTensor" /\ th[1].id = h
    /\ th[1].target = "int32" /\ th[1].ret.kind = "handle"

ReadOnlyOps == {"getTensorData", "getTensor", "getTensorType",
                "getTensorShape"}

\* C26: no step of getTensorData, getTensorType, getTensorShape or
\* getTensor, for a known or an unknown handle and whatever the other
\* thread does, changes the set of live handles, a native tensor, type,
\* shape or buffer entry, a buffer, or the handle generator.
C26_GettersReadOnly ==
  [][\A t \in Threads :
       (Actor(t) /\ th'[t].op \in ReadOnlyOps) =>
         /\ registry' = registry
         /\ heap' = heap
         /\ live' = live
         /\ next_tensor_id_' = next_tensor_id_]_vars

\* One thread has read the type of a live handle and the other has asked
\* for the shape of a handle that was never issued and got the error.
C26_Witness ==
  \E h \in live, x \in HandleIds \ live :
    /\ WellFormed(h)
    /\ th[1].pc = "idle" /\ th[1].op = "getTensorType" /\ th[1].id = h
    /\ th[1].ret.kind = "type"
    /\ th[2].pc = "idle" /\ th[2].op = "getTensorShape" /\ th[2].id = x
    /\ th[2].ret.kind = "throw"
    /\ ~Has(tensor_shapes_, x) /\ ~Has(tensors_, x)

\* The positions at which a thread inside convertTensor waits for the
\* mutex: before cloneTensor's lock_guard and before convertTensor's own.
LockPcs == {"cv_clone_lock", "cv_lock"}

\* C27: with two threads under fair scheduling, a thread about to acquire
\* the mutex does not hold it (convertTensor calls the locking cloneTensor
\* before it takes the mutex itself), a thread that has left a method by
\* return or by throw does not hold it, and every method a thread is in is
\* eventually left, unless the process has died in a wild access of the
\* unlocked conversion path of C1 and C2 (which leaves no thread waiting).
C27_NoOperationBlocks ==
  /\ [](\A t \in Threads : th[t].pc \in LockPcs \cup {"idle"} => mutex_ # t)
  /\ \A t \in Threads :
       (th[t].pc # "idle") ~> (th[t].pc = "idle" \/ crashed)

\* Thread 1 is in convertTensor's same-type path, waiting for cloneTensor's
\* lock while thread 2 holds the mutex inside releaseTensor.
C27_Witness ==
  /\ th[1].pc = "cv_clone_lock" /\ th[1].op = "convertTensor"
  /\ mutex_ = 2 /\ th[2].op = "releaseTensor"

\* C28: what a thread holds from a call that has returned never points
\* into a record: in particular the result of getTensor(h) does not point
\* at a native tensor that a releaseTensor(h) of another thread has
\* destroyed.  (Refuted: getTensor returns the address of the Ort::Value
\* that tensors_ owns, and the caller still holds it after the release.)
C28_NoReferenceOutlivesRelease ==
  \A t \in Threads :
    (th[t].pc = "idle" /\ th[t].ret.kind = "ptr") =>
      Has(tensors_, th[t].ret.h)

\* C29: when the destructor has completed, the registry holds no native
\* tensor, type, shape or buffer entry of any handle, and no backing
\* buffer is left allocated.  (Refuted on linux: the arrays behind the
\* tensors stay allocated, as after releaseTensor in C7.)
C29_TeardownReleasesAll ==
  th[1].op = "~TensorManager" =>
    /\ tensors_ = EmptyMap /\ tensor_types_ = EmptyMap
    /\ tensor_shapes_ = EmptyMap /\ tensor_data_buffers_ = EmptyMap
    /\ \A a \in DOMAIN heap : ~heap[a].live

\* C30: in a sequence of calls, create*Tensor with a data buffer whose
\* element count is not the product of the shape's dimensions, shorter or
\* longer, throws and leaves the registry as it was.  (Refuted: a longer
\* buffer is accepted, and the tensor stored holds a prefix of it.)
C30_CountMismatchRejected ==
  [][\A t \in Threads :
       (/\ th[t].pc = "create_ins" /\ th'[t].pc = "idle"
        /\ Len(th[t].data) # ElemCount(th[t].shape)) =>
         /\ th'[t].ret.kind = "throw"
         /\ registry' = registry]_vars

\* The record under id is that of a storeTensor that found a tensor and a
\* tag for its element type.
StoredOk(id) ==
  /\ Has(origin, id) /\ origin[id].by = "store"
  /\ origin[id].type \in ElementTypeTags

\* C31: in a sequence of calls, after storeTensor(id, t) has stored a
\* tensor t whose element type has a tag, getTensor(id) returns a pointer,
\* getTensorShape(id) the shape of t, getTensorType(id) the tag of t's
\* element type, and releaseTensor(id) finds the record and returns true.
C31_StoredLikeCreated ==
  /\ [](\A id \in HandleIds :
          StoredOk(id) =>
            /\ Has(tensors_, id) /\ tensors_[id].kind = "tensor"
            /\ Has(tensor_shapes_, id)
            /\ tensor_shapes_[id] = origin[id].shape
            /\ Has(tensor_types_, id)
            /\ tensor_types_[id] = origin[id].type
            /\ \A t \in Threads :
                 (th[t].pc = "idle" /\ th[t].id = id) =>
                   /\ th[t].op = "getTensor" => th[t].ret.kind = "ptr"
                   /\ th[t].op = "getTensorShape" =>
                        /\ th[t].ret.kind = "shape"
                        /\ th[t].ret.shape = origin[id].shape
                   /\ th[t].op = "getTensorType" =>
                        /\ th[t].ret.kind = "type"
                        /\ th[t].ret.type = origin[id].type)
  /\ [][\A t \in Threads :
          (th[t].pc = "rel_erase" /\ th'[t].pc = "idle") =>
            /\ th'[t].ret.kind = "bool" /\ th'[t].ret.b]_vars
  /\ [][\A t \in Threads :
          (th[t].pc = "rel_find" /\ StoredOk(th[t].id)) =>
            th'[t].pc = "rel_erase"]_vars

\* getTensorType has returned float16 for a float16 tensor that the engine
\* handed in under a handle whose created record was float32.
C31_Witness ==
  \E id \in HandleIds :
    /\ StoredOk(id) /\ origin[id].type = "float16"
    /\ th[1].pc = "idle" /\ th[1].op = "getTensorType" /\ th[1].id = id
    /\ th[1].ret.kind = "type" /\ th[1].ret.type = "float16"

\* C32: in a sequence of calls, for as long as a created handle h is
\* neither released nor stored over, its numeric tensor is a view over a
\* live buffer of the registry that holds the elements the caller passed
\* and that no other record views (a string tensor holds its strings
\* itself), and getTensorData(h) returns those elements, whatever calls,
\* with whatever buffers of their callers, came after the create returned
\* and its caller's buffer went.
C32_CreateCopies ==
  \A h \in HandleIds :
    AsCreated(h) =>
      /\ Has(tensors_, h)
      /\ IF created[h].type = "string"
         THEN /\ tensors_[h].ptr = 0
              /\ tensors_[h].own = created[h].data
         ELSE /\ tensors_[h].ptr \in DOMAIN heap
              /\ heap[tensors_[h].ptr].live
              /\ heap[tensors_[h].ptr].data =
                   ElemsOf(created[h].type, created[h].data)
              /\ \A x \in HandleIds \ {h} :
                   Has(tensors_, x) => tensors_[x].ptr # tensors_[h].ptr
      /\ \A t \in Threads :
           (/\ th[t].pc = "idle" /\ th[t].op = "getTensorData"
            /\ th[t].id = h) =>
             /\ th[t].ret.kind = "data"
             /\ th[t].ret.data =
                  Prefix(ElemsOf(created[h].type, created[h].data),
                         ElemCount(created[h].shape))

\* getTensorData has returned the elements of a created bool tensor after
\* a second create*Tensor, with a buffer of its own, has returned.
C32_Witness ==
  \E h \in HandleIds, x \in HandleIds :
    /\ h # x /\ AsCreated(h) /\ AsCreated(x)
    /\ created[h].type = "bool" /\ created[x].type = "float32"
    /\ th[1].pc = "idle" /\ th[1].op = "getTensorData" /\ th[1].id = h
    /\ th[1].ret.kind = "data" /\ th[1].ret.data = <<1, 0>>
    /\ th[1].data = <<>>

\* The record under h is as create, convert or clone left it.
Produced(h) ==
  Has(origin, h) /\ origin[h].by \in {"create", "convert", "clone"}

\* C33: in a sequence of calls, a string tensor that createStringTensor or
\* the clone of a string tensor produced has no entry in
\* tensor_data_buffers_, and in the variant that has that map every
\* numeric tensor of at least one element that create, convert or clone
\* produced has an entry under its own handle, the buffer its native
\* tensor views.
C33_StringsHaveNoBuffer ==
  \A h \in HandleIds :
    (Produced(h) /\ Has(tensors_, h)) =>
      /\ origin[h].type = "string" => ~Has(tensor_data_buffers_, h)
      /\ (/\ platform = "windows"
          /\ origin[h].type \in NumericTypes
          /\ ElemCount(origin[h].shape) >= 1) =>
           /\ Has(tensor_data_buffers_, h)
           /\ tensor_data_buffers_[h] = tensors_[h].ptr
           /\ heap[tensor_data_buffers_[h]].live

\* windows: a string tensor and its clone have no buffer entry and the
\* clone of a created numeric tensor has one.
C33_Witness ==
  /\ platform = "windows"
  /\ \E h \in HandleIds, x \in HandleIds :
       /\ AsCreated(h) /\ created[h].type = "string"
       /\ Produced(x) /\ origin[x].by = "clone" /\ origin[x].from = h
       /\ ~Has(tensor_data_buffers_, h) /\ ~Has(tensor_data_buffers_, x)
       /\ Has(tensors_, x) /\ tensors_[x].etype = "string"

\* C34: in a sequence of calls, whenever no call is in progress,
\* tensors_, tensor_types_ and tensor_shapes_ have the same keys.
\* (Refuted: a storeTensor that fails after tensors_[id] = ... leaves a
\* key of tensors_ without type, C15.)
C34_SameKeys ==
  (\A t \in Threads : th[t].pc = "idle") =>
    /\ DOMAIN tensors_ = DOMAIN tensor_types_
    /\ DOMAIN tensors_ = DOMAIN tensor_shapes_

\* What each operation would answer for handle h in the present state:
\* the tests at the head of getTensorData, getTensor, releaseTensor,
\* getTensorType and getTensorShape.
DataAbsent(h) ==
  ~(Has(tensors_, h) /\ Has(tensor_types_, h) /\ Has(tensor_shapes_, h))
TensorNull(h) == ~Has(tensors_, h) \/ tensors_[h] = NullTensor
ReleaseFalse(h) == ~Has(tensors_, h)
TypeNotFound(h) == ~Has(tensor_types_, h)
ShapeNotFound(h) == ~Has(tensor_shapes_, h)

\* C35: in a sequence of calls, whenever no call is in progress and for
\* every handle h, getTensorData(h) reports absence exactly if getTensor(h)
\* returns null, exactly if releaseTensor(h) would return false, exactly if
\* getTensorType(h) and getTensorShape(h) would both throw.  (Refuted:
\* after a failed storeTensor the operations disagree, C15.)
C35_OperationsAgree ==
  (\A t \in Threads : th[t].pc = "idle") =>
    \A h \in HandleIds :
      /\ DataAbsent(h) <=> TensorNull(h)
      /\ TensorNull(h) <=> ReleaseFalse(h)
      /\ ReleaseFalse(h) <=> (TypeNotFound(h) /\ ShapeNotFound(h))

\* C36: windows, in a sequence of calls, whenever no call is in progress:
\* every key of tensor_data_buffers_ is a key of tensors_ and the native
\* tensor under it is the view over that buffer.  (Refuted: storeTensor
\* onto a handle that has a buffer keeps the buffer of the replaced
\* tensor under the handle.)
C36_BufferBelongsToTensor ==
  (platform = "windows" /\ \A t \in Threads : th[t].pc = "idle") =>
    \A h \in DOMAIN tensor_data_buffers_ :
      /\ Has(tensors_, h)
      /\ tensors_[h].kind = "tensor"
      /\ tensors_[h].ptr = tensor_data_buffers_[h]

\* C37: under any interleaving of two threads, two calls of create*Tensor
\* or convertTensor (the same-type clone included) that both returned a
\* handle returned different handles.  (Refuted: the same-type path draws
\* its handle outside the mutex, C4, so a clone and a concurrent create or
\* clone return the same handle and one record replaces the other.)
C37_HandlesPairwiseDistinct ==
  (/\ \A t \in Threads :
        /\ th[t].pc = "idle" /\ th[t].ret.kind = "handle"
        /\ th[t].op \in {"create", "convertTensor"})
    => th[1].ret.h # th[2].ret.h

GenPcs == {"create_ins", "cv_ins", "cvx_ins"}

C39_ConvertNotFound ==
  [][\A t \in Threads :
       (/\ th[t].pc = "idle" /\ left' = left - 1
        /\ th'[t].op = "convertTensor"
        /\ th'[t].id \notin live) =>
         /\ th'[t].pc = "idle"
         /\ th'[t].ret = RetThrow("Tensor not found")
         /\ registry' = registry
         /\ next_tensor_id_' = next_tensor_id_
         /\ heap' = heap /\ live' = live]_vars

\* convertTensor has thrown "Tensor not found" for a handle that was
\* created and then released.
C39_Witness ==
  /\ th[1].pc = "idle" /\ th[1].op = "convertTensor"
  /\ th[1].ret = RetThrow("Tensor not found")
  /\ th[1].id \notin live /\ th[1].id \in Issued
  /\ ~Has(tensors_, th[1].id)
  /\ \E a \in DOMAIN heap : heap[a].data = <<5, -5>>
  /\ next_tensor_id_ = 2

\* C40: in a sequence of calls, getTensorData(id) on a live record whose
\* recorded tag is none of float32, int32, int64, uint8, bool, string
\* throws "Unsupported tensor type"; it returns neither null nor a
\* snapshot, and the four maps are as before.  (Refuted: after a failed
\* storeTensor, C15, the tag of an earlier store stands beside a value
\* that is no tensor, and the introspection throws first.)
C40_UnknownTagThrows ==
  [][\A t \in Threads :
       (/\ th[t].pc = "gtd_body"
        /\ th[t].id \in live
        /\ Has(tensor_types_, th[t].id)
        /\ tensor_types_[th[t].id] \notin RegistryTypes) =>
         /\ th'[t].pc = "idle"
         /\ th'[t].ret = RetThrow("Unsupported tensor type")
         /\ registry' = registry
         /\ live' = live]_vars

\* The same for the record as storeTensor left it for a tensor with such
\* a tag: this holds.
C40_StoredTagThrows ==
  [][\A t \in Threads :
       (/\ th[t].pc = "gtd_body"
        /\ StoredOk(th[t].id)
        /\ origin[th[t].id].type \notin RegistryTypes) =>
         /\ tensor_types_[th[t].id] \notin RegistryTypes
         /\ th'[t].pc = "idle"
         /\ th'[t].ret = RetThrow("Unsupported tensor type")
         /\ registry' = registry
         /\ live' = live]_vars

\* getTensorData has thrown for a stored float16 tensor, whose record is
\* still there.
C40_StoredTagWitness ==
  /\ th[1].pc = "idle" /\ th[1].op = "getTensorData"
  /\ th[1].ret = RetThrow("Unsupported tensor type")
  /\ StoredOk(th[1].id)
  /\ Has(tensors_, th[1].id) /\ tensors_[th[1].id].kind = "tensor"
  /\ Has(tensor_types_, th[1].id)
  /\ tensor_types_[th[1].id] = "float16"
  /\ Has(tensor_shapes_, th[1].id)

====
